---- MODULE Spec2Model ----
(***************************************************************************)
(* A model of mcs-data-tools: the channel locator of locate_synctones.py   *)
(* (find_audio_channel, get_analog_data), the metadata reader of           *)
(* h5_tools.py (get_date_and_duration), the numeric helpers of utils.py    *)
(* (centered_moving_average, find_square_wave_steps) and the peak pipeline *)
(* of locate_synctones.                                                    *)
(***************************************************************************)
EXTENDS Integers, Sequences, FiniteSets, TLC

VARIABLES
    call,      \* the function the caller invoked
    pc,        \* position inside the running call
    file,      \* the HDF5 container: [root, groups]
    target,    \* desiredLabelStr, a sequence of characters
    g,         \* position of the for loop over analog_stream_group.keys()
    handles,   \* h5py.File handles the call holds open
    ret,       \* outcome of find_audio_channel
    outcome,   \* outcome of the invoked call
    input,     \* argument of the numeric function under check
    output     \* its result

vars == <<call, pc, file, target, g, handles, ret, outcome, input, output>>

\* ------------------------------------------------------------------ bounds

MaxGroups == 2      \* keys under /Data/Recording_0/AnalogStream
MaxChannels == 2    \* rows of one InfoChannel table

\* ---------------------------------------------------------------- strings

\* str.lower() on the characters the labels are made of.
Lower(c) ==
    CASE c = "A" -> "a"
      [] c = "U" -> "u"
      [] c = "L" -> "l"
      [] OTHER -> c

LowerStr(s) == [k \in 1..Len(s) |-> Lower(s[k])]

\* Python's `a in b` on strings: a is a contiguous substring of b.
Contains(b, a) ==
    \E off \in 0..(Len(b) - Len(a)) :
        \A k \in 1..Len(a) : b[off + k] = a[k]

\* bytes.decode("utf-8") raises UnicodeDecodeError on an invalid byte.
Decodable(label) == \A k \in 1..Len(label) : label[k] # "xFF"

\* The comparison without the two lower() calls.
ChannelMatchesExact(t, label) == Contains(label, t)

\* desiredLabelStr.lower() in channel_label.lower()
ChannelMatches(t, label) == Contains(LowerStr(label), LowerStr(t))

\* --------------------------------------------------------------- the file

ChannelLabels == { <<"A", "u", "L">>, <<"o">>, <<"xFF">> }

Targets == { <<"a", "u">>, <<"A", "u">> }

ChannelLists == UNION { [1..n -> ChannelLabels] : n \in 0..MaxChannels }

\* A stream group whose examination reaches the channel scan.
AnalogGroup(chs) ==
    [isStream |-> TRUE, hasInfo |-> TRUE, hasData |-> TRUE,
     label |-> "Analog Data", infoOk |-> TRUE, channels |-> chs]

\* The groups the loop leaves before the scan, each with a matching channel
\* in its table: a key without the Stream_ prefix, a missing table, a Label
\* attribute without the marker or one that does not decode, an InfoChannel
\* table that cannot be read.
SkippedGroups ==
    LET m == AnalogGroup(<< <<"A", "u", "L">> >>)
    IN  { [m EXCEPT !.isStream = FALSE],
          [m EXCEPT !.hasInfo = FALSE],
          [m EXCEPT !.hasData = FALSE],
          [m EXCEPT !.label = "Digital Data"],
          [m EXCEPT !.label = "xFF"],
          [m EXCEPT !.infoOk = FALSE, !.channels = << >>] }

Groups == SkippedGroups \cup { AnalogGroup(chs) : chs \in ChannelLists }

Files ==
    { [root |-> FALSE, groups |-> << >>] } \cup
    { [root |-> TRUE, groups |-> gs] :
        gs \in UNION { [1..n -> Groups] : n \in 0..MaxGroups } }

NoResult == [kind |-> "none", path |-> 0, channel |-> -1]

Returned(path, i) == [kind |-> "return", path |-> path, channel |-> i]

Raised(what) == [kind |-> what, path |-> 0, channel |-> -1]

\* ------------------------------------------------- find_audio_channel

\* The inner for loop with an overwrite-on-match policy: every label is
\* scanned and the last match is returned.
RECURSIVE ScanChannelsLast(_, _, _, _)
ScanChannelsLast(chs, t, i, found) ==
    IF i >= Len(chs) THEN
        IF found >= 0 THEN [kind |-> "return", channel |-> found]
        ELSE [kind |-> "exhausted", channel |-> -1]
    ELSE IF ~Decodable(chs[i + 1]) THEN [kind |-> "raise", channel |-> -1]
    ELSE IF ChannelMatches(t, chs[i + 1]) THEN ScanChannelsLast(chs, t, i + 1, i)
    ELSE ScanChannelsLast(chs, t, i + 1, found)

\* The inner for loop: channel labels are decoded and compared in ascending
\* index order from i (0-based); the first match returns, a label that does
\* not decode raises.
RECURSIVE ScanChannelsFrom(_, _, _)
ScanChannelsFrom(chs, t, i) ==
    IF i >= Len(chs) THEN [kind |-> "exhausted", channel |-> -1]
    ELSE IF ~Decodable(chs[i + 1]) THEN [kind |-> "raise", channel |-> -1]
    ELSE IF ChannelMatches(t, chs[i + 1]) THEN [kind |-> "return", channel |-> i]
    ELSE ScanChannelsFrom(chs, t, i + 1)

ScanChannelsOverwrite(chs, t) == ScanChannelsLast(chs, t, 0, -1)

ScanChannels(chs, t) == ScanChannelsFrom(chs, t, 0)

\* The body of the outer loop without the check of the stream label.
ExamineGroupUnchecked(grp, t) ==
    IF ~grp.isStream THEN [kind |-> "skip", channel |-> -1]
    ELSE IF ~grp.hasInfo \/ ~grp.hasData THEN [kind |-> "skip", channel |-> -1]
    ELSE IF grp.label = "xFF" THEN [kind |-> "raise", channel |-> -1]
    ELSE IF ~grp.infoOk THEN [kind |-> "raise", channel |-> -1]
    ELSE ScanChannels(grp.channels, t)

\* What the body of the outer loop does with one key.
\*   "skip"   the key has no Stream_ prefix, or a `continue` before the scan
\*   "raise"  an exception inside the try block
\*   "return" a channel matched
\*   "exhausted" the scan ended without a match
ExamineGroup(grp, t) ==
    IF ~grp.isStream THEN [kind |-> "skip", channel |-> -1]
    ELSE IF ~grp.hasInfo \/ ~grp.hasData THEN [kind |-> "skip", channel |-> -1]
    ELSE IF grp.label = "xFF" THEN [kind |-> "raise", channel |-> -1]
    ELSE IF grp.label # "Analog Data" THEN [kind |-> "skip", channel |-> -1]
    ELSE IF ~grp.infoOk THEN [kind |-> "raise", channel |-> -1]
    ELSE ScanChannels(grp.channels, t)

\* with h5py.File(file_path, "r") as f:
find_open ==
    /\ pc = "find_open"
    /\ handles' = handles + 1
    /\ pc' = "find_root"
    /\ UNCHANGED <<call, file, target, g, ret, outcome, input, output>>

\* if recording_group not in f: raise; the with block closes the handle.
find_root_missing ==
    /\ pc = "find_root"
    /\ ~file.root
    /\ ret' = Raised("RecordingGroupNotFound")
    /\ handles' = handles - 1
    /\ pc' = "find_end"
    /\ UNCHANGED <<call, file, target, g, outcome, input, output>>

find_root_present ==
    /\ pc = "find_root"
    /\ file.root
    /\ g' = 1
    /\ pc' = "find_loop"
    /\ UNCHANGED <<call, file, target, handles, ret, outcome, input, output>>

\* The loop without its try/except: an exception leaves the function.
find_next_stream_no_try ==
    /\ pc = "find_loop"
    /\ g <= Len(file.groups)
    /\ LET r == ExamineGroup(file.groups[g], target)
       IN  IF r.kind = "raise"
           THEN /\ ret' = Raised("Exception")
                /\ handles' = handles - 1
                /\ pc' = "find_end"
                /\ g' = g
           ELSE /\ r.kind \in {"skip", "exhausted"}
                /\ g' = g + 1
                /\ UNCHANGED <<pc, handles, ret>>
    /\ UNCHANGED <<call, file, target, outcome, input, output>>

\* One iteration whose body ends in `continue`, in the except clause, or
\* in the end of the channel scan: the loop goes to the next key.
find_next_stream ==
    /\ pc = "find_loop"
    /\ g <= Len(file.groups)
    /\ ExamineGroup(file.groups[g], target).kind \in {"skip", "raise", "exhausted"}
    /\ g' = g + 1
    /\ UNCHANGED <<call, pc, file, target, handles, ret, outcome, input, output>>

\* return stream_path, i
find_return ==
    /\ pc = "find_loop"
    /\ g <= Len(file.groups)
    /\ ExamineGroup(file.groups[g], target).kind = "return"
    /\ ret' = Returned(g, ExamineGroup(file.groups[g], target).channel)
    /\ handles' = handles - 1
    /\ pc' = "find_end"
    /\ UNCHANGED <<call, file, target, g, outcome, input, output>>

\* The final raise with the handle left open (no with block).
find_not_found_leak ==
    /\ pc = "find_loop"
    /\ g > Len(file.groups)
    /\ ret' = Raised("ChannelNotFound")
    /\ pc' = "find_end"
    /\ UNCHANGED <<call, file, target, g, handles, outcome, input, output>>

\* The loop ran out of keys: raise Exception("Unable to find any channel ...").
find_not_found ==
    /\ pc = "find_loop"
    /\ g > Len(file.groups)
    /\ ret' = Raised("ChannelNotFound")
    /\ handles' = handles - 1
    /\ pc' = "find_end"
    /\ UNCHANGED <<call, file, target, g, outcome, input, output>>

\* find_audio_channel was the invoked call: its outcome is the call's.
find_done ==
    /\ pc = "find_end"
    /\ call = "find_audio_channel"
    /\ outcome' = ret
    /\ pc' = "done"
    /\ UNCHANGED <<call, file, target, g, handles, ret, input, output>>

\* ---------------------------------------------------- get_analog_data

\* find_audio_channel raised: the exception leaves get_analog_data before
\* its own with block.
analog_propagate ==
    /\ pc = "find_end"
    /\ call = "get_analog_data"
    /\ ret.kind # "return"
    /\ outcome' = ret
    /\ pc' = "done"
    /\ UNCHANGED <<call, file, target, g, handles, ret, input, output>>

\* with h5py.File(file_path, "r") as f:
analog_open ==
    /\ pc = "find_end"
    /\ call = "get_analog_data"
    /\ ret.kind = "return"
    /\ handles' = handles + 1
    /\ pc' = "analog_read"
    /\ UNCHANGED <<call, file, target, g, ret, outcome, input, output>>

\* The reads of Tick and ChannelData either succeed, and the function
\* returns from inside the with block, or raise (a zero tick, a ChannelData
\* table with fewer rows than InfoChannel); both leave the with block.
analog_read ==
    /\ pc = "analog_read"
    /\ \E ok \in BOOLEAN :
         outcome' = IF ok THEN Returned(ret.path, ret.channel)
                    ELSE Raised("ReadError")
    /\ handles' = handles - 1
    /\ pc' = "done"
    /\ UNCHANGED <<call, file, target, g, ret, input, output>>

\* ----------------------------------------------- get_date_and_duration

date_open ==
    /\ pc = "date_open"
    /\ handles' = handles + 1
    /\ pc' = "date_read"
    /\ UNCHANGED <<call, file, target, g, ret, outcome, input, output>>

\* f["/Data"] may be absent (KeyError), the Date attribute may not be bytes
\* (dateStr is then unbound at the print), Duration may be absent (raise);
\* otherwise the function returns. Every path leaves the with block.
date_read ==
    /\ pc = "date_read"
    /\ \E how \in {"KeyError", "UnboundLocalError", "DurationNotFound", "return"} :
         outcome' = IF how = "return" THEN Returned(0, -1) ELSE Raised(how)
    /\ handles' = handles - 1
    /\ pc' = "done"
    /\ UNCHANGED <<call, file, target, g, ret, input, output>>

\* ------------------------------------------------------- specification

Calls == {"find_audio_channel", "get_analog_data", "get_date_and_duration"}

Init ==
    /\ call \in Calls
    /\ pc = IF call = "get_date_and_duration" THEN "date_open" ELSE "find_open"
    \* get_date_and_duration reads no stream group and takes no target.
    /\ file \in IF call = "get_date_and_duration"
                THEN { [root |-> TRUE, groups |-> << >>] } ELSE Files
    /\ target \in IF call = "get_date_and_duration" THEN { << >> } ELSE Targets
    /\ g = 0
    /\ handles = 0
    /\ ret = NoResult
    /\ outcome = NoResult
    /\ input = << >>
    /\ output = << >>

Next ==
    \/ find_open
    \/ find_root_missing
    \/ find_root_present
    \/ find_next_stream
    \/ find_return
    \/ find_not_found
    \/ find_done
    \/ analog_propagate
    \/ analog_open
    \/ analog_read
    \/ date_open
    \/ date_read

Spec == Init /\ [][Next]_vars

\* ------------------------------------------------ channel locator claims

\* The target is contained in the label, compared case-insensitively.
LabelHasTarget(t, label) ==
    /\ \A k \in 1..Len(label) : label[k] # "xFF"
    /\ \E off \in 0..(Len(label) - Len(t)) :
         \A k \in 1..Len(t) : Lower(label[off + k]) = Lower(t[k])

\* 0-based indices of the channels of grp whose label contains the target.
MatchingChannels(grp, t) ==
    { i \in 0..(Len(grp.channels) - 1) : LabelHasTarget(t, grp.channels[i + 1]) }

SetMax(S) == CHOOSE x \in S : \A y \in S : y <= x

SetMin(S) == CHOOSE x \in S : \A y \in S : x <= y

\* Both tables present and the group's Label attribute holds the marker.
Accepted(grp) == grp.hasInfo /\ grp.hasData /\ grp.label = "Analog Data"

\* Some label of the group does not decode before any label matches.
RaisesInScan(grp, t) ==
    \E i \in 0..(Len(grp.channels) - 1) :
        /\ \E k \in 1..Len(grp.channels[i + 1]) : grp.channels[i + 1][k] = "xFF"
        /\ \A j \in 0..(i - 1) : ~LabelHasTarget(t, grp.channels[j + 1])

\* Examining the group raises inside the try block.
GroupRaises(grp, t) ==
    /\ grp.isStream /\ grp.hasInfo /\ grp.hasData
    /\ \/ grp.label = "xFF"
       \/ grp.label = "Analog Data" /\ (~grp.infoOk \/ RaisesInScan(grp, t))

\* The scan of the group reaches a matching channel.
ReachesMatch(grp, t) ==
    /\ grp.isStream /\ Accepted(grp) /\ grp.infoOk
    /\ MatchingChannels(grp, t) # {}
    /\ ~RaisesInScan(grp, t)

AcceptedWithMatch == 
    { k \in 1..Len(file.groups) :
        Accepted(file.groups[k]) /\ MatchingChannels(file.groups[k], target) # {} }

ReachingGroups ==
    { k \in 1..Len(file.groups) : ReachesMatch(file.groups[k], target) }

\* C1 as stated: the returned channel is the last (highest-index) channel of
\* the returned group whose label contains the target.
C1_ReturnsLastMatch ==
    ret.kind = "return" =>
        ret.channel = SetMax(MatchingChannels(file.groups[ret.path], target))

\* C1 amended: the returned channel is the first (lowest-index) channel of
\* the returned group whose label contains the target.
C1_ReturnsFirstMatch ==
    ret.kind = "return" =>
        /\ MatchingChannels(file.groups[ret.path], target) # {}
        /\ ret.channel = SetMin(MatchingChannels(file.groups[ret.path], target))

C1_Witness ==
    /\ ret.kind = "return"
    /\ Cardinality(MatchingChannels(file.groups[ret.path], target)) >= 2

\* Every key under the analog-stream root carries the Stream_ prefix.
OnlyStreams == \A k \in 1..Len(file.groups) : file.groups[k].isStream

\* C2 as stated, on recordings whose keys all carry the Stream_ prefix: the
\* returned group is the first accepted group in key order with a channel
\* whose label contains the target, no later group is examined, and the
\* returned group is accepted.
C2_FirstAcceptedGroup ==
    (ret.kind = "return" /\ OnlyStreams) =>
        /\ ret.path = SetMin(AcceptedWithMatch)
        /\ g = ret.path
        /\ Accepted(file.groups[ret.path])

\* C2 amended: the returned group is the first key with the Stream_ prefix
\* that is accepted, whose InfoChannel table can be read, and whose scan
\* reaches a matching channel before any label that fails to decode; no
\* later group is examined, and the returned group is accepted.
C2_FirstReachingGroup ==
    ret.kind = "return" =>
        /\ ReachingGroups # {}
        /\ ret.path = SetMin(ReachingGroups)
        /\ g = ret.path
        /\ Accepted(file.groups[ret.path])

C2_Witness ==
    /\ ret.kind = "return"
    /\ ret.path = 2
    /\ Accepted(file.groups[1])
    /\ MatchingChannels(file.groups[1], target) # {}

\* C3 as stated, on recordings that have the analog-stream root and whose
\* keys all carry the Stream_ prefix: the call ends in the channel-not-found
\* error exactly when no accepted group has a channel whose label contains
\* the target, returns a pair in every other case, and an error carries no
\* partial result.
C3_NotFoundIffNoMatch ==
    (ret.kind # "none" /\ file.root /\ OnlyStreams) =>
        /\ (ret.kind = "ChannelNotFound") <=> (AcceptedWithMatch = {})
        /\ ret.kind # "ChannelNotFound" => ret.kind = "return"
        /\ ret.kind # "return" => ret.path = 0 /\ ret.channel = -1

\* C3 amended: when the analog-stream root is missing the call ends in the
\* recording-group-not-found error; otherwise it ends in the
\* channel-not-found error exactly when no Stream_ group that is accepted
\* and readable reaches a matching channel before a label that fails to
\* decode, and returns a pair in every other case; an error carries no
\* partial result.
C3_NotFoundIffNoneReached ==
    ret.kind # "none" =>
        /\ ret.kind \in {"return", "ChannelNotFound", "RecordingGroupNotFound"}
        /\ (ret.kind = "RecordingGroupNotFound") <=> ~file.root
        /\ file.root => ((ret.kind = "ChannelNotFound") <=> (ReachingGroups = {}))
        /\ ret.kind # "return" => ret.path = 0 /\ ret.channel = -1

C3_Witness ==
    /\ ret.kind = "ChannelNotFound"
    /\ AcceptedWithMatch # {}

\* C9: the call holds at most one open handle at any point, and none once
\* find_audio_channel or the invoked call has ended, by return or by raise.
C9_HandlesScoped ==
    /\ handles \in {0, 1}
    /\ pc \in {"find_end", "done"} => handles = 0

C9_Witness ==
    /\ pc = "done"
    /\ call = "get_analog_data"
    /\ outcome.kind = "ChannelNotFound"
    /\ handles = 0

\* C10: an exception raised while a group is examined leaves the call
\* running: the loop moves to the next key with nothing returned and the
\* handle still open; keys are taken one by one in order; the
\* channel-not-found error is raised only after the last key; and with the
\* root present it is the only error of find_audio_channel.
C10_ErrorsAbandonGroup ==
    /\ [][(pc = "find_loop" /\ g <= Len(file.groups)
             /\ GroupRaises(file.groups[g], target))
          => (pc' = "find_loop" /\ g' = g + 1 /\ ret' = NoResult
                /\ handles' = handles)]_vars
    /\ [][pc = "find_loop" => g' \in {g, g + 1}]_vars
    /\ [](ret.kind = "ChannelNotFound" => g = Len(file.groups) + 1)
    /\ [](file.root /\ ret.kind \notin {"none", "return"}
            => ret.kind = "ChannelNotFound")

C10_Witness ==
    /\ ret.kind = "return"
    /\ ret.path = 2
    /\ GroupRaises(file.groups[1], target)

\* ---------------------------------------------------------------- utils.py

MaxLen == 3         \* samples of an input sequence
MaxWindow == 5      \* window_size
MaxSample == 2      \* sample values are 0..MaxSample
MaxThreshold2 == 3  \* thresholds are 0, 1/2, .., MaxThreshold2/2

Samples == 0..MaxSample

SampleSeqs(lo, hi) == UNION { [1..n -> Samples] : n \in lo..hi }

RECURSIVE SumRange(_, _, _)
\* Sum of f[k] for k in lo..hi, f a function on integers.
SumRange(f, lo, hi) == IF lo > hi THEN 0 ELSE f[lo] + SumRange(f, lo + 1, hi)

\* Element m (0-based) of the full discrete convolution of a and v.
FullConv(a, v, m) ==
    LET lo == IF m - (Len(v) - 1) > 0 THEN m - (Len(v) - 1) ELSE 0
        hi == IF m < Len(a) - 1 THEN m ELSE Len(a) - 1
    IN  SumRange([j \in lo..hi |-> a[j + 1] * v[m - j + 1]], lo, hi)

\* np.convolve(a, v, mode='same'): the arguments are swapped when v is the
\* longer one; the result has the length of the longer argument and is the
\* full convolution from offset n - n \div 2 - 1, n the shorter length.
ConvolveSame(a, v) ==
    LET long == IF Len(v) > Len(a) THEN v ELSE a
        short == IF Len(v) > Len(a) THEN a ELSE v
        nright == Len(short) - (Len(short) \div 2) - 1
    IN  [k \in 1..Len(long) |-> FullConv(long, short, (k - 1) + nright)]

\* centered_moving_average(data, window_size) for an odd window. The weights
\* are 1/window_size each: the result is kept as the numerators num over the
\* common denominator den, so cma[i] = num[i] / den.
centered_moving_average(data, window_size) ==
    [num |-> ConvolveSame(data, [k \in 1..window_size |-> 1]),
     den |-> window_size]

\* np.diff(signal): the first differences, one fewer than the samples.
Diff(signal) ==
    [k \in 1..(IF Len(signal) > 0 THEN Len(signal) - 1 ELSE 0) |->
        signal[k + 1] - signal[k]]

Abs(x) == IF x < 0 THEN -x ELSE x

RECURSIVE WhereFrom(_, _, _, _)
\* np.where(cond)[0] + offset: the 0-based positions k, ascending, at which
\* the absolute difference exceeds threshold2 / 2.
WhereFrom(d, threshold2, k, offset) ==
    IF k > Len(d) THEN << >>
    ELSE (IF 2 * Abs(d[k]) > threshold2 THEN <<(k - 1) + offset>> ELSE << >>)
         \o WhereFrom(d, threshold2, k + 1, offset)

\* The step indices without the + 1.
find_square_wave_steps_no_offset(signal, threshold2) ==
    WhereFrom(Diff(signal), threshold2, 1, 0)

\* find_square_wave_steps(signal, threshold), threshold = threshold2 / 2.
find_square_wave_steps(signal, threshold2) ==
    WhereFrom(Diff(signal), threshold2, 1, 1)

Idle ==
    /\ call = "none"
    /\ file = [root |-> FALSE, groups |-> << >>]
    /\ target = << >>
    /\ g = 0
    /\ handles = 0
    /\ ret = NoResult

\* if window_size % 2 == 0: raise ValueError(...)
cma_even_window ==
    /\ pc = "cma"
    /\ input.window_size % 2 = 0
    /\ outcome' = Raised("ValueError")
    /\ pc' = "done"
    /\ UNCHANGED <<call, file, target, g, handles, ret, input, output>>

cma_return ==
    /\ pc = "cma"
    /\ input.window_size % 2 # 0
    /\ output' = centered_moving_average(input.data, input.window_size)
    /\ outcome' = Returned(0, -1)
    /\ pc' = "done"
    /\ UNCHANGED <<call, file, target, g, handles, ret, input>>

InitCMA ==
    /\ Idle
    /\ pc = "cma"
    /\ input \in [data : SampleSeqs(1, MaxLen), window_size : 1..MaxWindow]
    /\ output = << >>
    /\ outcome = NoResult

NextCMA == cma_even_window \/ cma_return

SpecCMA == InitCMA /\ [][NextCMA]_vars

steps_return ==
    /\ pc = "steps"
    /\ output' = find_square_wave_steps(input.signal, input.threshold2)
    /\ outcome' = Returned(0, -1)
    /\ pc' = "done"
    /\ UNCHANGED <<call, file, target, g, handles, ret, input>>

InitSteps ==
    /\ Idle
    /\ pc = "steps"
    /\ input \in [signal : SampleSeqs(0, MaxLen + 1), threshold2 : 0..MaxThreshold2]
    /\ output = << >>
    /\ outcome = NoResult

NextSteps == steps_return

SpecSteps == InitSteps /\ [][NextSteps]_vars

\* --------------------------------------------------------- utils.py claims

\* 0-based positions inside the sequence that the window centred at i covers.
WindowAt(data, i, w) ==
    { j \in 0..(Len(data) - 1) : i - (w - 1) \div 2 <= j /\ j <= i + (w - 1) \div 2 }

RECURSIVE SumOver(_, _)
SumOver(data, S) ==
    IF S = {} THEN 0
    ELSE LET j == CHOOSE x \in S : TRUE
         IN  data[j + 1] + SumOver(data, S \ {j})

\* C4: for an odd window the result has exactly as many values as the
\* input, and the value at i is the sum of the samples the window centred at
\* i covers, divided by the window size.
C4_SameLengthWindowMean ==
    (pc = "done" /\ input.window_size % 2 = 1) =>
        /\ outcome.kind = "return"
        /\ output.den = input.window_size
        /\ Len(output.num) = Len(input.data)
        /\ \A i \in 0..(Len(input.data) - 1) :
             output.num[i + 1] = SumOver(input.data, WindowAt(input.data, i, input.window_size))

MaxEnvLen == 7      \* samples of an envelope handed to the peak detector
MaxDistance == 3    \* distance is 1..MaxDistance

RECURSIVE Ahead(_, _, _)
\* The inner while of the maxima search: from a (0-based) to the end of the
\* plateau that starts at i, never past the last sample.
Ahead(x, i, a) ==
    IF a < Len(x) - 1 /\ x[a + 1] = x[i + 1] THEN Ahead(x, i, a + 1) ELSE a

RECURSIVE LocalMaxima(_, _)
\* The 0-based positions, ascending, of the local maxima of x from i on: a
\* sample (or the middle of a flat run, rounded down) higher than the sample
\* before it and the sample after it. The first and last samples are never
\* maxima.
LocalMaxima(x, i) ==
    IF i >= Len(x) - 1 THEN << >>
    ELSE IF x[i] < x[i + 1]
         THEN LET a == Ahead(x, i, i + 1)
              IN  IF x[a + 1] < x[i + 1]
                  THEN <<(i + a - 1) \div 2>> \o LocalMaxima(x, a + 1)
                  ELSE LocalMaxima(x, i + 1)
         ELSE LocalMaxima(x, i + 1)

\* height=0.5 on values v / den: the peak is kept when v / den >= 1/2.
HeightOk(v, den) == 2 * v >= den

\* The orders np.argsort may give the priorities: ascending, and in any
\* order among equal priorities (the default sort is not stable).
ArgSorts(priority) ==
    { o \in [1..Len(priority) -> 1..Len(priority)] :
        /\ \A a, b \in 1..Len(priority) : a # b => o[a] # o[b]
        /\ \A a \in 1..(Len(priority) - 1) : priority[o[a]] <= priority[o[a + 1]] }

\* The distance test with <= in place of <.
TooCloseInclusive(p, q, distance) == Abs(p - q) <= distance

\* Peak q falls to peak p when it is nearer than distance.
TooClose(p, q, distance) == Abs(p - q) < distance

RECURSIVE SelectByDistance(_, _, _, _, _)
\* Peaks are visited from the highest priority down (order from its end);
\* a visited peak that is still kept removes every other peak nearer than
\* distance on either side.
SelectByDistance(peaks, order, distance, i, keep) ==
    IF i = 0 THEN keep
    ELSE LET j == order[i]
         IN  IF ~keep[j]
             THEN SelectByDistance(peaks, order, distance, i - 1, keep)
             ELSE SelectByDistance(peaks, order, distance, i - 1,
                    [m \in 1..Len(peaks) |->
                        IF m # j /\ TooClose(peaks[j], peaks[m], distance)
                        THEN FALSE ELSE keep[m]])

\* The local maxima of x that reach the height.
HighMaxima(x, den) ==
    SelectSeq(LocalMaxima(x, 1), LAMBDA p : HeightOk(x[p + 1], den))

\* find_peaks(x / den, height=0.5, distance=distance)[0], order being the
\* argsort of the heights of the maxima.
FindPeaks(x, den, distance, order) ==
    LET peaks == HighMaxima(x, den)
        keep == SelectByDistance(peaks, order, distance, Len(peaks),
                                 [m \in 1..Len(peaks) |-> TRUE])
        Kept(k) == keep[k]
        idx == SelectSeq([k \in 1..Len(peaks) |-> k], Kept)
    IN  [k \in 1..Len(idx) |-> peaks[idx[k]]]

peaks_return ==
    /\ pc = "peaks"
    /\ \E order \in ArgSorts([k \in 1..Len(HighMaxima(input.x, 1)) |->
                                input.x[HighMaxima(input.x, 1)[k] + 1]]) :
         output' = FindPeaks(input.x, 1, input.distance, order)
    /\ outcome' = Returned(0, -1)
    /\ pc' = "done"
    /\ UNCHANGED <<call, file, target, g, handles, ret, input>>

\* Envelopes of unit impulses (1) on a zero baseline.
InitPeaks ==
    /\ Idle
    /\ pc = "peaks"
    /\ input \in [x : UNION { [1..n -> {0, 1}] : n \in 1..MaxEnvLen },
                  distance : 1..MaxDistance]
    /\ output = << >>
    /\ outcome = NoResult

NextPeaks == peaks_return

SpecPeaks == InitPeaks /\ [][NextPeaks]_vars

\* ------------------------------------------------------ peak detector claims

\* 0-based positions of the impulses of the envelope.
Impulses == { i \in 0..(Len(input.x) - 1) : input.x[i + 1] = 1 }

\* Impulse i is followed by another impulse, the next one being j.
NextImpulse(i, j) ==
    /\ j \in Impulses /\ i < j
    /\ \A m \in Impulses : ~(i < m /\ m < j)

\* Every impulse has a zero sample on both sides.
Isolated ==
    \A i \in Impulses :
        /\ 0 < i /\ i < Len(input.x) - 1
        /\ input.x[i] = 0 /\ input.x[i + 2] = 0

Returns == { output[k] : k \in 1..Len(output) }

\* No two returned indices nearer than distance, indices strictly ascending.
Separated ==
    /\ \A a, b \in 1..Len(output) : a < b => output[b] - output[a] >= input.distance
    /\ \A a \in 1..(Len(output) - 1) : output[a] < output[a + 1]

\* C6 as stated, on envelopes whose impulses each have a zero sample on
\* both sides: impulses spaced exactly distance apart give one peak per
\* impulse; impulses spaced closer than distance collapse to a single peak;
\* no two returned indices are nearer than distance and they ascend.
C6_OnePerImpulseOrCollapse ==
    (pc = "done" /\ Isolated) =>
        /\ (\A i, j \in Impulses : NextImpulse(i, j) => j - i = input.distance)
             => Returns = Impulses
        /\ (Cardinality(Impulses) >= 2
              /\ \A i, j \in Impulses : NextImpulse(i, j) => j - i < input.distance)
             => Cardinality(Returns) = 1
        /\ Separated

\* C6 amended: when every impulse has a zero sample on both sides (none is
\* the first or last sample, none touches another), impulses spaced exactly
\* distance apart give one peak per impulse, and impulses that all lie within
\* fewer than distance samples of one another give exactly one peak, at an
\* impulse; for every envelope of impulses no two returned indices are
\* nearer than distance and they ascend.
C6_IsolatedImpulses ==
    pc = "done" =>
        /\ (Isolated
              /\ \A i, j \in Impulses : NextImpulse(i, j) => j - i = input.distance)
             => Returns = Impulses
        /\ (Isolated /\ Impulses # {}
              /\ \A i, j \in Impulses : Abs(j - i) < input.distance)
             => (Cardinality(Returns) = 1 /\ Returns \subseteq Impulses)
        /\ Separated

C6_Witness ==
    /\ pc = "done"
    /\ Isolated
    /\ Cardinality(Impulses) = 3
    /\ \A i, j \in Impulses : NextImpulse(i, j) => j - i = 2
    /\ input.distance = 3
    /\ Cardinality(Returns) = 2

\* ------------------------------------------------------- locate_synctones

MinAudioLen == 3    \* fewest samples of the audio channel
MaxAudioLen == 5    \* most samples of the audio channel

\* MinMaxScaler().fit_transform(x): (x - min) / (max - min), a zero range
\* being replaced by 1. The result is num / den.
MinMaxScale(x) ==
    LET lo == CHOOSE v \in { x[k] : k \in 1..Len(x) } : \A k \in 1..Len(x) : v <= x[k]
        hi == CHOOSE v \in { x[k] : k \in 1..Len(x) } : \A k \in 1..Len(x) : x[k] <= v
    IN  [num |-> [k \in 1..Len(x) |-> x[k] - lo],
         den |-> IF hi - lo = 0 THEN 1 ELSE hi - lo]

\* (audio_data - np.mean(audio_data)) ** 2, in units of 1 / Len(x)^2.
CenteredSquared(x) ==
    LET total == SumRange(x, 1, Len(x))
    IN  [k \in 1..Len(x) |-> (Len(x) * x[k] - total) * (Len(x) * x[k] - total)]

\* savgol_filter(x, window_length, 3): a linear filter, so an all-zero
\* input gives the all-zero output; for any other input the least-squares
\* fit is not computed here and every sequence of the same length over the
\* sample values is taken as a possible output.
SavgolOutputs(x) ==
    IF \A k \in 1..Len(x) : x[k] = 0 THEN { x }
    ELSE [1..Len(x) -> Samples]

\* savgol_filter raises ValueError when window_length exceeds the length.
syn_savgol_raises ==
    /\ pc = "syn_envelope"
    /\ input.window_length > Len(input.audio)
    /\ outcome' = Raised("ValueError_savgol")
    /\ pc' = "done"
    /\ UNCHANGED <<call, file, target, g, handles, ret, input, output>>

\* Lines 105-111: scaled, centered, squared, smoothed.
syn_envelope ==
    /\ pc = "syn_envelope"
    /\ input.window_length <= Len(input.audio)
    /\ \E sm \in SavgolOutputs(CenteredSquared(input.audio)) :
         output' = [scaled |-> MinMaxScale(input.audio),
                    squared |-> MinMaxScale(CenteredSquared(input.audio)),
                    smoothed |-> MinMaxScale(sm),
                    peak_indices |-> << >>]
    /\ pc' = "syn_peaks"
    /\ UNCHANGED <<call, file, target, g, handles, ret, input, outcome>>

\* Line 112: peak_indices, _ = find_peaks(smoothed.flatten(), height=0.5, distance=...)
syn_peaks ==
    /\ pc = "syn_peaks"
    /\ LET x == output.smoothed.num
           den == output.smoothed.den
           hm == HighMaxima(x, den)
       IN  \E order \in ArgSorts([k \in 1..Len(hm) |-> x[hm[k] + 1]]) :
             output' = [output EXCEPT
                          !.peak_indices = FindPeaks(x, den, input.distance, order)]
    /\ pc' = IF input.do_plot THEN "syn_plot" ELSE "syn_stats"
    /\ UNCHANGED <<call, file, target, g, handles, ret, input, outcome>>

\* Lines 113-123: peak_indices[0] raises IndexError when there is no peak.
syn_plot_raises ==
    /\ pc = "syn_plot"
    /\ Len(output.peak_indices) = 0
    /\ outcome' = Raised("IndexError")
    /\ pc' = "done"
    /\ UNCHANGED <<call, file, target, g, handles, ret, input, output>>

syn_plot ==
    /\ pc = "syn_plot"
    /\ Len(output.peak_indices) > 0
    /\ pc' = "syn_stats"
    /\ UNCHANGED <<call, file, target, g, handles, ret, input, output, outcome>>

\* Lines 125-127: diffs has one entry fewer than peak_indices; np.mean of an
\* empty array is nan, np.min of an empty array raises ValueError.
syn_stats_raises ==
    /\ pc = "syn_stats"
    /\ Len(Diff(output.peak_indices)) = 0
    /\ outcome' = Raised("ValueError_min")
    /\ pc' = "done"
    /\ UNCHANGED <<call, file, target, g, handles, ret, input, output>>

\* Line 133: return peak_indices / 10_000
syn_return ==
    /\ pc = "syn_stats"
    /\ Len(Diff(output.peak_indices)) > 0
    /\ outcome' = [kind |-> "return",
                   timestamps |-> [num |-> output.peak_indices, den |-> 10000]]
    /\ pc' = "done"
    /\ UNCHANGED <<call, file, target, g, handles, ret, input, output>>

\* The state after get_analog_data returned the audio channel.
InitSynctones ==
    /\ Idle
    /\ pc = "syn_envelope"
    /\ input \in [audio : UNION { [1..n -> {0, 1}] : n \in MinAudioLen..MaxAudioLen },
                  window_length : {MinAudioLen, MaxAudioLen},
                  distance : {1, MaxDistance},
                  do_plot : BOOLEAN]
    /\ output = << >>
    /\ outcome = NoResult

NextSynctones ==
    \/ syn_savgol_raises
    \/ syn_envelope
    \/ syn_peaks
    \/ syn_plot_raises
    \/ syn_plot
    \/ syn_stats_raises
    \/ syn_return

SpecSynctones == InitSynctones /\ [][NextSynctones]_vars

\* ------------------------------------------------ locate_synctones claims

\* C7: with plotting off, a run that found no peak, or exactly one, ends by
\* returning the timestamps of the peaks it found.
C7_FewPeaksReturn ==
    (pc = "done" /\ ~input.do_plot /\ outcome.kind # "ValueError_savgol"
       /\ Len(output.peak_indices) <= 1) =>
        /\ outcome.kind = "return"
        /\ outcome.timestamps.num = output.peak_indices

\* C8: for a constant-valued input the normalization fails with the
\* degenerate-signal error and no envelope is produced.
C8_ConstantInputFails ==
    (pc # "syn_envelope" /\ input.window_length <= Len(input.audio)
       /\ \A k \in 1..Len(input.audio) : input.audio[k] = input.audio[1]) =>
        /\ outcome.kind = "DegenerateSignal"
        /\ output = << >>

====
